---- MODULE Spec2Model ----
(***************************************************************************)
(* Model of src/app.py: the Streamlit script that scores an uploaded CSV   *)
(* of maintenance records with a pre-trained classifier (analyze_data),    *)
(* aggregates the scored records by month (aggregate_monthly_data, behind  *)
(* st.cache_data) and renders fleet metrics, charts, the scored table and  *)
(* a CSV export (main).                                                    *)
(*                                                                         *)
(* A DataFrame is a record [columns, rows]: columns is the sequence of     *)
(* column names, rows the sequence of rows, each row a function from the   *)
(* column names to values.  Python's None and "not yet assigned" are the   *)
(* empty sequence, a present value v is <<v>>.  Floating-point means are   *)
(* exact fractions [num, den]; den = 0 is NaN.  Probabilities are integers *)
(* in hundredths (80 is 0.80).                                             *)
(***************************************************************************)
EXTENDS Integers, Sequences, FiniteSets, TLC

VARIABLES
    model_assets,   \* the loaded classifier and its feature list (line 187)
    uploaded_file,  \* content of the uploaded CSV, <<>> when none (line 177)
    df_uploaded,    \* pd.read_csv(uploaded_file) (line 192)
    df_analyzed,    \* the DataFrame object made by df_uploaded.copy() (line 194),
                    \* which analyze_data and aggregate_monthly_data know as df
                    \* and main as df_analyzed once analyze_data has returned it
    missing_report, \* features named by analyze_data's st.error (line 45)
    predict_calls,  \* number of model.predict calls in this run (line 52)
    proba_calls,    \* number of model.predict_proba calls in this run (line 55)
    cache,          \* st.cache_data store of aggregate_monthly_data (line 72)
    agg_executed,   \* aggregate_monthly_data's body ran in this run (lines 77-96)
    agg,            \* (df_prob, df_cost, df_compliance) of line 200
    fleet,          \* the four top-level metrics of lines 203-206
    share,          \* the "% of Fleet" figure of line 223
    displayed,      \* the table given to st.dataframe (line 263)
    csv_export,     \* the table written by to_csv (line 268)
    exc,            \* the exception caught at line 277, "none" when none
    pc,             \* position of the script run inside main
    first_run       \* outputs of the first completed script run on this file

vars == <<model_assets, uploaded_file, df_uploaded, df_analyzed, missing_report,
          predict_calls, proba_calls, cache, agg_executed, agg, fleet, share,
          displayed, csv_export, exc, pc, first_run>>

-----------------------------------------------------------------------------
(* Bounds and input domains *)

MaxRows == 2

UnitIds == {"A", "B"}
RawDates == {"2024-01-15", "2024-01-20", "2024-02-03", "not-a-date"}
WeeklyScores == {30, 50}
MonthlyScores == {40}

(* Program constants *)
COST_LOW_RISK_REPAIR == 200
COST_HIGH_RISK_REPAIR == 1500

Features == <<"weekly_score", "monthly_score">>

-----------------------------------------------------------------------------
(* Generic helpers *)

Range(s) == {s[i] : i \in 1..Len(s)}

RECURSIVE SumSeq(_)
SumSeq(s) == IF Len(s) = 0 THEN 0 ELSE Head(s) + SumSeq(Tail(s))

RECURSIVE GCD(_, _)
GCD(a, b) == IF b = 0 THEN a ELSE GCD(b, a % b)

NaN == [num |-> 0, den |-> 0]

Frac(n, d) == IF d = 0 THEN NaN
              ELSE LET g == GCD(n, d) IN [num |-> n \div g, den |-> d \div g]

(* Series.mean(): NaN on an empty series *)
Mean(s) == Frac(SumSeq(s), Len(s))

(* df[c] = vals: overwrite an existing column in place, else append it *)
SetColumn(df, c, vals) ==
    [columns |-> IF c \in Range(df.columns) THEN df.columns
                 ELSE Append(df.columns, c),
     rows    |-> [i \in 1..Len(df.rows) |-> (c :> vals[i]) @@ df.rows[i]]]

-----------------------------------------------------------------------------
(* The classifier: an opaque object with predict and predict_proba.  A     *)
(* classifier is a fixed function of a row's feature values (out gives the *)
(* class and the probability of class 1, in hundredths) and either never   *)
(* raises, or raises in predict, or raises in predict_proba.  The family   *)
(* below has classifiers that score every row high, every row low (with    *)
(* equal or different confidence), rows differently, and one row with a    *)
(* class that is neither 0 nor 1.                                          *)

FeatureRows == [weekly_score : WeeklyScores, monthly_score : MonthlyScores]

ClassProba == {<<0, 20>>, <<0, 40>>, <<1, 80>>, <<2, 50>>}

ClassProbaOf(x) ==
    IF x.weekly_score = 30 THEN {<<0, 40>>, <<1, 80>>}
    ELSE {<<0, 20>>, <<1, 80>>, <<2, 50>>}

Classifiers ==
    [out : {f \in [FeatureRows -> ClassProba] :
                \A x \in FeatureRows : f[x] \in ClassProbaOf(x)},
     raises : {"never"}]
    \cup [out : {[x \in FeatureRows |-> <<1, 80>>]},
          raises : {"predict", "predict_proba"}]

(* X = df[features] *)
SelectFeatures(df, features) ==
    [i \in 1..Len(df.rows) |->
        [f \in Range(features) |-> df.rows[i][f]]]

predict(model, X) == [i \in 1..Len(X) |-> model.out[X[i]][1]]

predict_proba(model, X) ==
    [i \in 1..Len(X) |-> <<100 - model.out[X[i]][2], model.out[X[i]][2]>>]

-----------------------------------------------------------------------------
(* analyze_data *)

MissingFeaturesFirstOnly(df, features) ==
    LET Absent(f) == f \notin Range(df.columns)
        all == SelectSeq(features, Absent)
    IN  IF Len(all) = 0 THEN all ELSE <<Head(all)>>

(* [f for f in features if f not in df.columns] *)
MissingFeatures(df, features) ==
    LET Absent(f) == f \notin Range(df.columns)
    IN  SelectSeq(features, Absent)

RiskLevel(x) ==
    IF x = 1 THEN "HIGH RISK (Action Needed)" ELSE "Low Compliance Risk"

EstimatedRepairCostAnyPositive(x) ==
    IF x >= 1 THEN COST_HIGH_RISK_REPAIR ELSE COST_LOW_RISK_REPAIR

EstimatedRepairCost(x) ==
    IF x = 1 THEN COST_HIGH_RISK_REPAIR ELSE COST_LOW_RISK_REPAIR

(* The result of a call: status is "None" (missing features), "predict" or *)
(* "predict_proba" (that call raised), or "ok"; df is the argument object  *)
(* as the call leaves it, missing the features named in the error message. *)
analyze_data(df, assets) ==
    LET model    == assets.model
        features == assets.features
        missing  == MissingFeatures(df, features)
        X        == SelectFeatures(df, features)
        df1      == SetColumn(df, "Predicted_Risk", predict(model, X))
        probs    == predict_proba(model, X)
        df2      == SetColumn(df1, "Risk_Confidence",
                              [i \in 1..Len(probs) |-> probs[i][2]])
        df3      == SetColumn(df2, "Risk_Level",
                              [i \in 1..Len(df2.rows) |->
                                  RiskLevel(df2.rows[i]["Predicted_Risk"])])
        df4      == SetColumn(df3, "Estimated_Repair_Cost",
                              [i \in 1..Len(df3.rows) |->
                                  EstimatedRepairCost(df3.rows[i]["Predicted_Risk"])])
    IN  IF Len(missing) > 0
        THEN [status |-> "None", df |-> df, missing |-> missing,
              predict_calls |-> 0, proba_calls |-> 0]
        ELSE IF model.raises = "predict"
        THEN [status |-> "predict", df |-> df, missing |-> missing,
              predict_calls |-> 1, proba_calls |-> 0]
        ELSE IF model.raises = "predict_proba"
        THEN [status |-> "predict_proba", df |-> df1, missing |-> missing,
              predict_calls |-> 1, proba_calls |-> 1]
        ELSE [status |-> "ok", df |-> df4, missing |-> missing,
              predict_calls |-> 1, proba_calls |-> 1]

-----------------------------------------------------------------------------
(* aggregate_monthly_data *)

NaT == "NaT"

(* pd.to_datetime(value, errors='coerce') on one value *)
to_datetime(s) ==
    CASE s = "2024-01-15" -> "Timestamp('2024-01-15 00:00:00')"
      [] s = "2024-01-20" -> "Timestamp('2024-01-20 00:00:00')"
      [] s = "2024-02-03" -> "Timestamp('2024-02-03 00:00:00')"
      [] OTHER            -> NaT

(* .dt.to_period('M').astype(str) on one value *)
to_period_M(t) ==
    CASE t = "Timestamp('2024-01-15 00:00:00')" -> "2024-01"
      [] t = "Timestamp('2024-01-20 00:00:00')" -> "2024-01"
      [] t = "Timestamp('2024-02-03 00:00:00')" -> "2024-02"
      [] OTHER                                  -> NaT

(* ascending order of the group keys, as groupby(sort=True) emits them *)
KeyOrder == <<"2024-01", "2024-02", "NaT">>

dropna_keep_all(df, c) == df

(* df.dropna(subset=[c], inplace=True) *)
dropna(df, c) ==
    LET Valid(r) == r[c] # NaT
    IN  [columns |-> df.columns, rows |-> SelectSeq(df.rows, Valid)]

GroupRows(df, k) ==
    LET InGroup(r) == r["YearMonth"] = k
    IN  SelectSeq(df.rows, InGroup)

(* df.groupby('YearMonth'): one key per distinct value, ascending *)
GroupKeys(df) ==
    LET Present(k) == \E i \in 1..Len(df.rows) : df.rows[i]["YearMonth"] = k
    IN  SelectSeq(KeyOrder, Present)

ValuesOf(rows, c) == [i \in 1..Len(rows) |-> rows[i][c]]

(* The result of an executed call: df is the argument object as the call   *)
(* leaves it; prob, cost, compliance are the three returned tables.        *)
aggregate_monthly_data(df) ==
    LET d1   == SetColumn(df, "record_date",
                          [i \in 1..Len(df.rows) |->
                              to_datetime(df.rows[i]["record_date"])])
        d2   == dropna(d1, "record_date")
        d3   == SetColumn(d2, "YearMonth",
                          [i \in 1..Len(d2.rows) |->
                              to_period_M(d2.rows[i]["record_date"])])
        keys == GroupKeys(d3)
        prob == [j \in 1..Len(keys) |->
                    LET m    == Mean(ValuesOf(GroupRows(d3, keys[j]), "Risk_Confidence"))
                        \* the mean as a fraction of 1 (m is in hundredths)
                        mean == Frac(m.num, m.den * 100)
                    IN  [YearMonth |-> keys[j],
                         Avg_Failure_Prob |-> Frac(mean.num * 100, mean.den)]]
        cost == [j \in 1..Len(keys) |->
                    [YearMonth |-> keys[j],
                     Total_Estimated_Cost |->
                        SumSeq(ValuesOf(GroupRows(d3, keys[j]), "Estimated_Repair_Cost"))]]
        comp == [j \in 1..Len(keys) |->
                    [YearMonth |-> keys[j],
                     Avg_Weekly_Score |->
                        Mean(ValuesOf(GroupRows(d3, keys[j]), "weekly_score"))]]
    IN  [df |-> d3, prob |-> prob, cost |-> cost, compliance |-> comp]

-----------------------------------------------------------------------------
(* main *)

None == <<>>

(* The files a user can upload: unit_id and record_date are always there,  *)
(* each classifier feature may be absent; at most MaxRows data rows.       *)
ColumnChoices ==
    {<<"unit_id", "record_date", "weekly_score", "monthly_score">>,
     <<"unit_id", "record_date", "weekly_score">>,
     <<"unit_id", "record_date", "monthly_score">>,
     <<"unit_id", "record_date">>}

RowsOver(columns) ==
    LET cs == Range(columns)
    IN  CASE "weekly_score" \in cs /\ "monthly_score" \in cs ->
                [unit_id : UnitIds, record_date : RawDates,
                 weekly_score : WeeklyScores, monthly_score : MonthlyScores]
          [] "weekly_score" \in cs /\ "monthly_score" \notin cs ->
                [unit_id : UnitIds, record_date : RawDates,
                 weekly_score : WeeklyScores]
          [] "weekly_score" \notin cs /\ "monthly_score" \in cs ->
                [unit_id : UnitIds, record_date : RawDates,
                 monthly_score : MonthlyScores]
          [] OTHER ->
                [unit_id : UnitIds, record_date : RawDates]

SeqsUpTo(S, n) == UNION {[1..k -> S] : k \in 0..n}

Uploads ==
    UNION {{[columns |-> cols, rows |-> rows] :
                rows \in SeqsUpTo(RowsOver(cols), MaxRows)} :
           cols \in ColumnChoices}

df_shared(d) == [frame |-> d, shared |-> TRUE]

(* df_uploaded.copy(): a new object with the same content *)
df_copy(d) == [frame |-> d, shared |-> FALSE]

(* to_csv writes a datetime column whose times are all midnight as dates *)
FormatDate(v) ==
    CASE v = "Timestamp('2024-01-15 00:00:00')" -> "2024-01-15"
      [] v = "Timestamp('2024-01-20 00:00:00')" -> "2024-01-20"
      [] v = "Timestamp('2024-02-03 00:00:00')" -> "2024-02-03"
      [] v = NaT                                 -> ""
      [] OTHER                                   -> v

(* df_analyzed.to_csv(index=False), as the table it encodes *)
to_csv(d) ==
    [columns |-> d.columns,
     rows    |-> [i \in 1..Len(d.rows) |->
                    [c \in DOMAIN d.rows[i] |->
                        IF c = "record_date" THEN FormatDate(d.rows[i][c])
                        ELSE d.rows[i][c]]]]

nunique(s) == Cardinality(Range(s))

(* lines 203-206 *)
FleetMetrics(d) ==
    LET HighRisk(r) == r["Predicted_Risk"] = 1
    IN  [total_machines  |-> nunique(ValuesOf(d.rows, "unit_id")),
         high_risk_count |-> nunique(ValuesOf(SelectSeq(d.rows, HighRisk), "unit_id")),
         avg_compliance  |-> Mean(ValuesOf(d.rows, "weekly_score")),
         total_cost      |-> SumSeq(ValuesOf(d.rows, "Estimated_Repair_Cost"))]

Init ==
    /\ model_assets \in [model : Classifiers, features : {Features}]
    /\ uploaded_file = None
    /\ df_uploaded = None
    /\ df_analyzed = None
    /\ missing_report = None
    /\ predict_calls = 0
    /\ proba_calls = 0
    /\ cache = {}
    /\ agg_executed = FALSE
    /\ agg = None
    /\ fleet = None
    /\ share = None
    /\ displayed = None
    /\ csv_export = None
    /\ exc = "none"
    /\ pc = "idle"
    /\ first_run = None

(* A script run starts: the locals are unset, the file is read (line 192) *)
StartRun(file) ==
    /\ df_uploaded' = <<file>>
    /\ df_analyzed' = None
    /\ missing_report' = None
    /\ predict_calls' = 0
    /\ proba_calls' = 0
    /\ agg_executed' = FALSE
    /\ agg' = None
    /\ fleet' = None
    /\ share' = None
    /\ displayed' = None
    /\ csv_export' = None
    /\ exc' = "none"
    /\ pc' = "read"

(* The user uploads a CSV; Streamlit runs the script with it *)
Upload ==
    /\ pc = "idle"
    /\ \E file \in Uploads :
          /\ uploaded_file' = <<file>>
          /\ StartRun(file)
    /\ UNCHANGED <<model_assets, cache, first_run>>

(* line 194-197 and, for a raising classifier, lines 277-279 *)
AnalyzeData ==
    /\ pc = "read"
    /\ LET arg == df_copy(df_uploaded[1])
           r   == analyze_data(arg.frame, model_assets)
       IN  /\ df_analyzed' = <<r.df>>
           /\ df_uploaded' = IF arg.shared THEN <<r.df>> ELSE df_uploaded
           /\ missing_report' = IF r.status = "None" THEN <<r.missing>> ELSE None
           /\ predict_calls' = r.predict_calls
           /\ proba_calls' = r.proba_calls
           /\ exc' = IF r.status \in {"predict", "predict_proba"}
                     THEN r.status ELSE "none"
           /\ pc' = CASE r.status = "None" -> "returned_none"
                      [] r.status = "ok"   -> "analyzed"
                      [] OTHER             -> "error"
    /\ UNCHANGED <<model_assets, uploaded_file, cache, agg_executed, agg, fleet,
                   share, displayed, csv_export, first_run>>

Cached(key) == {e \in cache : e.key = key}

(* line 200, st.cache_data finds no entry for the argument: the body runs  *)
(* on the caller's object and the returned tables are stored               *)
AggregateCacheMiss ==
    /\ pc = "analyzed"
    /\ Cached(df_analyzed[1]) = {}
    /\ LET r      == aggregate_monthly_data(df_analyzed[1])
           tables == [prob |-> r.prob, cost |-> r.cost, compliance |-> r.compliance]
       IN  /\ df_analyzed' = <<r.df>>
           /\ agg' = <<tables>>
           /\ cache' = cache \cup {[key |-> df_analyzed[1], value |-> tables]}
    /\ agg_executed' = TRUE
    /\ pc' = "aggregated"
    /\ UNCHANGED <<model_assets, uploaded_file, df_uploaded, missing_report,
                   predict_calls, proba_calls, fleet, share, displayed,
                   csv_export, exc, first_run>>

(* line 200, st.cache_data has an entry for the argument: the body does    *)
(* not run and the stored tables are returned                              *)
AggregateCacheHit ==
    /\ pc = "analyzed"
    /\ \E e \in Cached(df_analyzed[1]) : agg' = <<e.value>>
    /\ pc' = "aggregated"
    /\ UNCHANGED <<model_assets, uploaded_file, df_uploaded, df_analyzed,
                   missing_report, predict_calls, proba_calls, cache,
                   agg_executed, fleet, share, displayed, csv_export, exc, first_run>>

(* lines 203-241: the four metrics, then the metric row with the share of  *)
(* high-risk machines; int / 0 raises ZeroDivisionError (lines 277-279)    *)
ComputeFleetMetrics ==
    /\ pc = "aggregated"
    /\ LET m == FleetMetrics(df_analyzed[1])
       IN  /\ fleet' = <<m>>
           /\ IF m.total_machines = 0
              THEN /\ share' = None
                   /\ exc' = "ZeroDivisionError"
                   /\ pc' = "error"
              ELSE /\ share' = <<Frac(m.high_risk_count * 100, m.total_machines)>>
                   /\ exc' = exc
                   /\ pc' = "metrics"
    /\ UNCHANGED <<model_assets, uploaded_file, df_uploaded, df_analyzed,
                   missing_report, predict_calls, proba_calls, cache,
                   agg_executed, agg, displayed, csv_export, first_run>>

(* lines 243-275: the charts, the scored table and the CSV export *)
DisplayAndExport ==
    /\ pc = "metrics"
    /\ displayed' = df_analyzed
    /\ csv_export' = <<to_csv(df_analyzed[1])>>
    /\ pc' = "done"
    /\ UNCHANGED <<model_assets, uploaded_file, df_uploaded, df_analyzed,
                   missing_report, predict_calls, proba_calls, cache,
                   agg_executed, agg, fleet, share, exc, first_run>>

Outputs ==
    [scored |-> displayed, export |-> csv_export, agg |-> agg,
     fleet |-> fleet, share |-> share]

(* Streamlit runs the script again on the same uploaded file (any widget   *)
(* interaction); the st.cache_data store outlives the run                  *)
Rerun ==
    /\ pc \in {"done", "error", "returned_none"}
    /\ first_run' = IF pc = "done" /\ first_run = None THEN <<Outputs>>
                    ELSE first_run
    /\ StartRun(uploaded_file[1])
    /\ UNCHANGED <<model_assets, uploaded_file, cache>>

Next ==
    \/ Upload
    \/ AnalyzeData
    \/ AggregateCacheMiss
    \/ AggregateCacheHit
    \/ ComputeFleetMetrics
    \/ DisplayAndExport
    \/ Rerun

Spec == Init /\ [][Next]_vars

-----------------------------------------------------------------------------
(* Reference values the claims are stated against *)

UploadedFrame == uploaded_file[1]

(* The scored record set: what analyze_data returns for the uploaded file *)
Scored == analyze_data(UploadedFrame, model_assets).df

Unparseable(r) == r["record_date"] \notin {"2024-01-15", "2024-01-20", "2024-02-03"}

MonthOfRaw(s) ==
    CASE s \in {"2024-01-15", "2024-01-20"} -> "2024-01"
      [] s = "2024-02-03"                   -> "2024-02"

DerivedColumns ==
    <<"Predicted_Risk", "Risk_Confidence", "Risk_Level", "Estimated_Repair_Cost">>

UnitsOf(rows) == {rows[i]["unit_id"] : i \in 1..Len(rows)}

HighRiskUnitsOf(rows) ==
    {rows[i]["unit_id"] : i \in {j \in 1..Len(rows) : rows[j]["Predicted_Risk"] = 1}}

-----------------------------------------------------------------------------
(* C1: a record whose record_date cannot be parsed contributes to none of  *)
(* the three monthly tables but is counted in the fleet metrics: whenever  *)
(* the fleet metrics are computed, total_machines and high_risk_count      *)
(* count the units of all scored records, avg_compliance and total_cost    *)
(* run over all scored records, and the monthly costs add up to the cost   *)
(* of the records with a parseable date.                                   *)
C1_UnparseableDateCountsInFleetMetrics ==
    fleet # None =>
        LET rows == Scored.rows
            Good(r) == ~Unparseable(r)
            good == SelectSeq(rows, Good)
        IN  /\ fleet[1].total_machines = Cardinality(UnitsOf(rows))
            /\ fleet[1].high_risk_count = Cardinality(HighRiskUnitsOf(rows))
            /\ fleet[1].avg_compliance = Mean(ValuesOf(rows, "weekly_score"))
            /\ fleet[1].total_cost = SumSeq(ValuesOf(rows, "Estimated_Repair_Cost"))
            /\ SumSeq(ValuesOf(agg[1].cost, "Total_Estimated_Cost"))
                  = SumSeq(ValuesOf(good, "Estimated_Repair_Cost"))

(* C2: when the batch has zero distinct units the high-risk share is       *)
(* reported as 0 and the run completes without an error, with empty        *)
(* monthly tables.                                                         *)
C2_ZeroUnitsReportsZeroShare ==
    (fleet # None /\ fleet[1].total_machines = 0) =>
        /\ pc # "error"
        /\ exc = "none"
        /\ share = <<Frac(0, 1)>>
        /\ agg[1].prob = <<>> /\ agg[1].cost = <<>> /\ agg[1].compliance = <<>>

(* C3: when the upload lacks required features, analyze_data reports       *)
(* exactly the required features absent from the columns, returns None     *)
(* without calling predict or predict_proba and without adding a column,   *)
(* and main stops: nothing is aggregated, computed, shown or exported.     *)
C3_MissingFeaturesReportedAndNothingScored ==
    LET absent == IF uploaded_file = None THEN {}
                  ELSE {f \in Range(model_assets.features) :
                            f \notin Range(UploadedFrame.columns)}
    IN  /\ pc = "returned_none" => absent # {}
        /\ (absent # {} /\ pc # "read") =>
              /\ pc = "returned_none"
              /\ missing_report # None
              /\ Range(missing_report[1]) = absent
              /\ Len(missing_report[1]) = Cardinality(absent)
              /\ predict_calls = 0 /\ proba_calls = 0
              /\ df_analyzed = <<UploadedFrame>>
              /\ df_uploaded = <<UploadedFrame>>
              /\ ~agg_executed /\ agg = None /\ cache = {}
              /\ fleet = None /\ share = None
              /\ displayed = None /\ csv_export = None

C3_Witness ==
    /\ pc = "returned_none"
    /\ missing_report = <<(<<"weekly_score", "monthly_score">>)>>
    /\ Len(UploadedFrame.rows) > 0

(* C4: when predict or predict_proba raises, the run ends in the error     *)
(* state: aggregate_monthly_data is not invoked, no fleet metric is        *)
(* computed, no scored table is shown or exported, and the uploaded        *)
(* record set is as it was read.                                           *)
C4_ScoringFailureIsAtomic ==
    /\ exc \in {"predict", "predict_proba"} =>
          /\ pc = "error"
          /\ ~agg_executed /\ agg = None /\ cache = {}
          /\ fleet = None /\ share = None
          /\ displayed = None /\ csv_export = None
          /\ df_uploaded = <<UploadedFrame>>
    /\ (/\ uploaded_file # None /\ pc # "read"
        /\ model_assets.model.raises # "never"
        /\ \A f \in Range(model_assets.features) :
              f \in Range(UploadedFrame.columns))
          => exc = model_assets.model.raises

C4_Witness ==
    /\ exc = "predict_proba"
    /\ pc = "error"
    /\ Len(df_analyzed[1].rows) > 0
    /\ "Predicted_Risk" \in Range(df_analyzed[1].columns)

(* C5: for a valid batch the scored record set that main uses for the      *)
(* fleet metrics, shows and exports has as many rows as the input.         *)
C5_ScoredRowCountEqualsInput ==
    /\ pc \in {"analyzed", "aggregated", "metrics", "done"} =>
          Len(df_analyzed[1].rows) = Len(UploadedFrame.rows)
    /\ displayed # None => Len(displayed[1].rows) = Len(UploadedFrame.rows)
    /\ csv_export # None => Len(csv_export[1].rows) = Len(UploadedFrame.rows)

(* C6: in every scored record Risk_Level and Estimated_Repair_Cost are     *)
(* functions of Predicted_Risk alone: 1 gives the high-risk label and      *)
(* 1500, any other value the low-risk label and 200; records with equal    *)
(* Predicted_Risk have equal label and cost whatever their confidence.     *)
C6_LabelAndCostDependOnlyOnPredictedRisk ==
    pc \in {"analyzed", "aggregated", "metrics", "done"} =>
        LET rows == df_analyzed[1].rows
        IN  /\ \A i \in 1..Len(rows) :
                  /\ rows[i]["Predicted_Risk"] = 1 =>
                        /\ rows[i]["Risk_Level"] = "HIGH RISK (Action Needed)"
                        /\ rows[i]["Estimated_Repair_Cost"] = 1500
                  /\ rows[i]["Predicted_Risk"] # 1 =>
                        /\ rows[i]["Risk_Level"] = "Low Compliance Risk"
                        /\ rows[i]["Estimated_Repair_Cost"] = 200
                  /\ rows[i]["Estimated_Repair_Cost"] \in {200, 1500}
            /\ \A i, j \in 1..Len(rows) :
                  rows[i]["Predicted_Risk"] = rows[j]["Predicted_Risk"] =>
                      /\ rows[i]["Risk_Level"] = rows[j]["Risk_Level"]
                      /\ rows[i]["Estimated_Repair_Cost"]
                            = rows[j]["Estimated_Repair_Cost"]

C6_Witness ==
    /\ pc = "analyzed"
    /\ \E i, j \in 1..Len(df_analyzed[1].rows) :
          /\ df_analyzed[1].rows[i]["Predicted_Risk"]
                = df_analyzed[1].rows[j]["Predicted_Risk"]
          /\ df_analyzed[1].rows[i]["Risk_Confidence"]
                # df_analyzed[1].rows[j]["Risk_Confidence"]

(* C7: a later run on the same file with the same classifier, with         *)
(* aggregate_monthly_data served from its cache, yields the scored         *)
(* records, monthly tables and fleet metrics of the first run.             *)
C7_RerunYieldsIdenticalOutputs ==
    (pc = "done" /\ first_run # None) => Outputs = first_run[1]

(* C8: the exported table has exactly the original columns in their order  *)
(* followed by the four derived columns, and the original columns' values  *)
(* are those of the upload.                                                *)
C8_ExportKeepsOriginalColumnsThenDerived ==
    csv_export # None =>
        /\ csv_export[1].columns = UploadedFrame.columns \o DerivedColumns
        /\ Len(csv_export[1].rows) = Len(UploadedFrame.rows)
        /\ \A i \in 1..Len(UploadedFrame.rows) :
              \A c \in Range(UploadedFrame.columns) :
                  csv_export[1].rows[i][c] = UploadedFrame.rows[i][c]

C10_FleetCountsDistinctUnits ==
    fleet # None =>
        /\ fleet[1].total_machines = Cardinality(UnitsOf(Scored.rows))
        /\ fleet[1].high_risk_count = Cardinality(HighRiskUnitsOf(Scored.rows))
        /\ fleet[1].high_risk_count <= fleet[1].total_machines

====
